---- MODULE Spec2Model ----
(***************************************************************************)
(* Model of pyvo.mivot.viewer.mivot_instance.MivotInstance: the builder    *)
(* (_create_class), the row binder (update), the name normalizer           *)
(* (_remove_model_name) and the dictionary projection (_get_class_dict).   *)
(*                                                                         *)
(* Strings are sequences of atoms.  The atoms ":", "." and "_" are the     *)
(* single characters; every other atom is a run of characters holding no   *)
(* separator, and no two atom sequences of the model spell the same        *)
(* string.  Python scalars are records [k, s]: a str, None, or the typed   *)
(* result of a cast.                                                       *)
(***************************************************************************)
EXTENDS Integers, Sequences, FiniteSets, TLC

VARIABLES
    instance_dict,  \* the dictionary the constructor was called with
    obj,            \* the MivotInstance tree (vars(self), recursively)
    built,          \* the tree as the constructor left it
    pre,            \* the tree before the latest update call
    call,           \* the latest call: its name, arguments and outcome
    proj,           \* the latest projection (hk_dict or dict) of obj
    defaults,       \* every update so far was called with the default ref
    norm            \* the latest _remove_model_name call (normalizer alone)

vars == <<instance_dict, obj, built, pre, call, proj, defaults, norm>>

----------------------------------------------------------------------------
(* Bounds of the model *)

\* longest token handed to the normalizer alone
MaxTokLen == 4
\* longest COLLECTION of the input dictionaries
MaxItems == 2

----------------------------------------------------------------------------
(* Python values *)

None == [k |-> "none", s |-> <<>>]
Str(s) == [k |-> "str", s |-> s]
Float(s) == [k |-> "float", s |-> s]
IsStr(v) == v.k = "str"
\* Python truthiness of a scalar: None and "" are falsy
Truthy(v) == v.k # "none" /\ v.s # <<>>

\* str.find(c) and str.rfind(c), 1-based; 0 stands for Python's -1
Find(s, c) ==
    IF \E i \in 1..Len(s) : s[i] = c
    THEN CHOOSE i \in 1..Len(s) : s[i] = c /\ \A j \in 1..(i - 1) : s[j] # c
    ELSE 0

RFind(s, c) ==
    IF \E i \in 1..Len(s) : s[i] = c
    THEN CHOOSE i \in 1..Len(s) : s[i] = c /\ \A j \in (i + 1)..Len(s) : s[j] # c
    ELSE 0

\* s[i:] for the 1-based position after which the slice starts
SliceFrom(s, i) == SubSeq(s, i + 1, Len(s))

\* str.replace(a, b) for an atom a
Replace(s, a, b) == [i \in 1..Len(s) |-> IF s[i] = a THEN b ELSE s[i]]

----------------------------------------------------------------------------
(* MivotInstance._remove_model_name *)

remove_model_name_str(value, role_instance) ==
    LET index_underscore == Find(value, ":")
        next_index_underscore == RFind(value, ".")
    IN  IF index_underscore # 0
        THEN IF next_index_underscore # 0 /\ ~role_instance
             THEN SliceFrom(value, next_index_underscore)
             ELSE Replace(Replace(SliceFrom(value, index_underscore), ":", "_"),
                          ".", "_")
        ELSE value

\* on any Python scalar: a non-string is returned as it is
_remove_model_name(value, role_instance) ==
    IF IsStr(value)
    THEN Str(remove_model_name_str(value.s, role_instance))
    ELSE value

----------------------------------------------------------------------------
(* Objects.  vars(self) is an ordered list of <<name, field>>; a field is  *)
(* a scalar, a nested MivotInstance or a list of MivotInstance.  oid is    *)
(* the identity of the object: the place of the constructor call that made *)
(* it.                                                                     *)

Scalar(v) == [t |-> "scalar", sc |-> v]
Node(n) == [t |-> "node", nd |-> n]
List(l) == [t |-> "list", ls |-> l]

\* the entries of the input dictionaries: a scalar, a dict or a list of dicts
DScalar(v) == [t |-> "scalar", sc |-> v]
DDict(d) == [t |-> "dict", d |-> d]
DList(l) == [t |-> "list", ls |-> l]

HasAttr(f, name) == \E i \in 1..Len(f) : f[i][1] = name
AttrIndex(f, name) == CHOOSE i \in 1..Len(f) : f[i][1] = name
GetAttr(f, name) == f[AttrIndex(f, name)][2]

\* setattr on an object: a dict keeps the place of a key it already holds
SetAttr(f, name, val) ==
    IF HasAttr(f, name)
    THEN [f EXCEPT ![AttrIndex(f, name)] = <<name, val>>]
    ELSE Append(f, <<name, val>>)

kvalue == <<"value">>
kdmtype == <<"dmtype">>
kref == <<"ref">>
kunit == <<"unit">>
kastropy_unit == <<"astropy_unit">>
kastropy_unit_time == <<"astropy_unit_time">>

----------------------------------------------------------------------------
(* External collaborators *)

\* MivotUtils.cast_type_value: a float-like dmtype parses the raw text into
\* a float (several texts give the same float), any other dmtype returns
\* the raw value; text that is no number is a casting error.
FloatTypes == {<<"float">>, <<"real">>}
FloatText ==
    (<<"1.0">> :> <<"1.0">>) @@ (<<"3.5">> :> <<"3.5">>) @@
    (<<"3.50">> :> <<"3.5">>) @@ (<<"7">> :> <<"7.0">>)

cast_type_value(value, dmtype) ==
    IF dmtype \in FloatTypes
    THEN IF value.k = "float" THEN [err |-> "", v |-> value]
         ELSE IF value.k = "str" /\ value.s \in DOMAIN FloatText
         THEN [err |-> "", v |-> Float(FloatText[value.s])]
         ELSE [err |-> "CastError", v |-> None]
    ELSE [err |-> "", v |-> value]

\* the cast against the dmtype attribute of an object: dmtype.lower() needs
\* a string
CastWith(value, dmfield) ==
    IF dmfield.t = "scalar" /\ IsStr(dmfield.sc)
    THEN cast_type_value(value, dmfield.sc.s)
    ELSE [err |-> "AttributeError", v |-> None]

\* pyvo.mivot.utils.vocabulary.unit_mapping: unit name -> astropy unit
unit_mapping ==
    (<<"mas/", "yr">> :> [k |-> "unit", s |-> <<"mas", "/", "yr">>]) @@
    (<<"deg">> :> [k |-> "unit", s |-> <<"deg">>])

\* astropy.time.TIME_FORMATS.keys()
TIME_FORMATS == {<<"mjd">>, <<"jd">>, <<"j", "year">>}

----------------------------------------------------------------------------
(* MivotInstance._is_leaf and MivotInstance._create_class *)

_is_leaf(kwargs) == \A i \in 1..Len(kwargs) : kwargs[i][2].t # "dict"

\* a slip: the second test is lost, every INSTANCE is also stored under its
\* simple name
InstanceAttr_Both(self, key, value, node) ==
    LET s1 == IF ~_is_leaf(value)
              THEN SetAttr(self, remove_model_name_str(key, TRUE), Node(node))
              ELSE self
    IN  SetAttr(s1, remove_model_name_str(key, FALSE), Node(node))

\* lines 83-86: the field an INSTANCE entry is stored under
InstanceAttr(self, key, value, node) ==
    LET s1 == IF ~_is_leaf(value)
              THEN SetAttr(self, remove_model_name_str(key, TRUE), Node(node))
              ELSE self
    IN  IF _is_leaf(value)
        THEN SetAttr(s1, remove_model_name_str(key, FALSE), Node(node))
        ELSE s1

\* line 95: the unit string the tables are searched for
UnitLookupKey(value) ==
    IF Truthy(value) THEN Str(Replace(value.s, "year", "yr")) ELSE None

\* a slip: the rewritten unit string also replaces the stored unit
UnitAttr_StoresRewritten(self, key, value) ==
    IF key = kunit
    THEN LET v == UnitLookupKey(value)
             s1 == SetAttr(self, kunit, Scalar(v))
         IN  IF IsStr(v) /\ v.s \in DOMAIN unit_mapping
             THEN SetAttr(s1, kastropy_unit, Scalar(unit_mapping[v.s]))
             ELSE IF IsStr(v) /\ v.s \in TIME_FORMATS
             THEN SetAttr(s1, kastropy_unit_time, Scalar(v))
             ELSE s1
    ELSE self

\* lines 93-99: the derived fields of a unit entry
UnitAttr(self, key, value) ==
    IF key = kunit
    THEN LET v == UnitLookupKey(value)
         IN  IF IsStr(v) /\ v.s \in DOMAIN unit_mapping
             THEN SetAttr(self, kastropy_unit, Scalar(unit_mapping[v.s]))
             ELSE IF IsStr(v) /\ v.s \in TIME_FORMATS
             THEN SetAttr(self, kastropy_unit_time, Scalar(v))
             ELSE self
    ELSE self

\* lines 88-92: the field of an ATTRIBUTE entry
ScalarAttr(self, key, value) ==
    IF key = kvalue
    THEN IF ~HasAttr(self, kdmtype)
         THEN [err |-> "AttributeError", f |-> self]
         ELSE LET c == CastWith(value, GetAttr(self, kdmtype))
              IN  IF c.err # ""
                  THEN [err |-> c.err, f |-> self]
                  ELSE [err |-> "",
                        f |-> SetAttr(self, remove_model_name_str(key, FALSE),
                                      Scalar(c.v))]
    ELSE [err |-> "",
          f |-> SetAttr(self, remove_model_name_str(key, FALSE),
                        Scalar(_remove_model_name(value, FALSE)))]

RECURSIVE MivotInstance(_, _)
RECURSIVE _create_class(_, _, _, _)
RECURSIVE CreateItems(_, _, _, _)

\* lines 80-81: one MivotInstance per item, appended in order
CreateItems(items, j, acc, oid) ==
    IF j > Len(items) THEN [err |-> "", ls |-> acc]
    ELSE LET r == MivotInstance(items[j], oid \o <<j>>)
         IN  IF r.err # "" THEN [err |-> r.err, ls |-> acc]
             ELSE CreateItems(items, j + 1, Append(acc, r.node), oid)

\* lines 77-99, from entry i on; self holds the fields set so far
_create_class(kwargs, i, self, oid) ==
    IF i > Len(kwargs) THEN [err |-> "", f |-> self]
    ELSE LET key == kwargs[i][1]
             value == kwargs[i][2]
             r == CASE value.t = "list" ->
                         LET l == CreateItems(value.ls, 1, <<>>, oid \o <<i>>)
                         IN  [err |-> l.err,
                              f |-> SetAttr(self, remove_model_name_str(key, FALSE),
                                            List(l.ls))]
                    [] value.t = "dict" ->
                         LET n == MivotInstance(value.d, oid \o <<i>>)
                         IN  [err |-> n.err,
                              f |-> InstanceAttr(self, key, value.d, n.node)]
                    [] OTHER ->
                         LET a == ScalarAttr(self, key, value.sc)
                         IN  [err |-> a.err,
                              f |-> UnitAttr(a.f, key, value.sc)]
         IN  IF r.err # "" THEN [err |-> r.err, f |-> self]
             ELSE _create_class(kwargs, i + 1, r.f, oid)

\* lines 34-42: the constructor
MivotInstance(instance, oid) ==
    LET r == _create_class(instance, 1, <<>>, oid)
    IN  [err |-> r.err, node |-> [oid |-> oid, f |-> r.f]]

----------------------------------------------------------------------------
(* MivotInstance.update.  Objects are mutated in place: a call that raises *)
(* leaves every assignment made before the exception.                      *)

NullRef == Str(<<"null">>)

\* a slip: the test on the field name is lost, every scalar field of a bound
\* object is overwritten
RefreshValue_AnyKey(self, key, row, ref) ==
    IF ref # None /\ ref # NullRef
    THEN IF ~(IsStr(ref) /\ ref.s \in DOMAIN row)
         THEN [err |-> "KeyError", node |-> self]
         ELSE IF ~HasAttr(self.f, kdmtype)
         THEN [err |-> "AttributeError", node |-> self]
         ELSE LET c == CastWith(row[ref.s], GetAttr(self.f, kdmtype))
              IN  IF c.err # ""
                  THEN [err |-> c.err, node |-> self]
                  ELSE [err |-> "",
                        node |-> [self EXCEPT !.f =
                                    SetAttr(self.f, remove_model_name_str(key, FALSE),
                                            Scalar(c.v))]]
    ELSE [err |-> "", node |-> self]

\* a slip: the value is cleared before the cast that raises
RefreshValue_ClobberOnError(self, key, row, ref) ==
    IF key = kvalue /\ ref # None /\ ref # NullRef
    THEN IF ~(IsStr(ref) /\ ref.s \in DOMAIN row)
         THEN [err |-> "KeyError", node |-> self]
         ELSE IF ~HasAttr(self.f, kdmtype)
         THEN [err |-> "AttributeError", node |-> self]
         ELSE LET c == CastWith(row[ref.s], GetAttr(self.f, kdmtype))
              IN  [err |-> c.err,
                   node |-> [self EXCEPT !.f =
                               SetAttr(self.f, remove_model_name_str(key, FALSE),
                                       Scalar(c.v))]]
    ELSE [err |-> "", node |-> self]

\* a slip: a casting error is swallowed, the leaf keeps its value
RefreshValue_SwallowCastError(self, key, row, ref) ==
    IF key = kvalue /\ ref # None /\ ref # NullRef
    THEN IF ~(IsStr(ref) /\ ref.s \in DOMAIN row)
         THEN [err |-> "KeyError", node |-> self]
         ELSE IF ~HasAttr(self.f, kdmtype)
         THEN [err |-> "AttributeError", node |-> self]
         ELSE LET c == CastWith(row[ref.s], GetAttr(self.f, kdmtype))
              IN  IF c.err # ""
                  THEN [err |-> "", node |-> self]
                  ELSE [err |-> "",
                        node |-> [self EXCEPT !.f =
                                    SetAttr(self.f, remove_model_name_str(key, FALSE),
                                            Scalar(c.v))]]
    ELSE [err |-> "", node |-> self]

\* lines 122-124: a scalar field of self
RefreshValue(self, key, row, ref) ==
    IF key = kvalue /\ ref # None /\ ref # NullRef
    THEN IF ~(IsStr(ref) /\ ref.s \in DOMAIN row)
         THEN [err |-> "KeyError", node |-> self]
         ELSE IF ~HasAttr(self.f, kdmtype)
         THEN [err |-> "AttributeError", node |-> self]
         ELSE LET c == CastWith(row[ref.s], GetAttr(self.f, kdmtype))
              IN  IF c.err # ""
                  THEN [err |-> c.err, node |-> self]
                  ELSE [err |-> "",
                        node |-> [self EXCEPT !.f =
                                    SetAttr(self.f, remove_model_name_str(key, FALSE),
                                            Scalar(c.v))]]
    ELSE [err |-> "", node |-> self]

\* getattr(value, 'ref') as the key row[ref] is looked up with: an object
\* held under ref is a key no row holds
RefOf(value) ==
    IF GetAttr(value.f, kref).t = "scalar"
    THEN GetAttr(value.f, kref).sc
    ELSE Str(<<"<object>">>)

RECURSIVE update(_, _, _)
RECURSIVE UpdateFrom(_, _, _, _)
RECURSIVE UpdateItems(_, _, _)

\* lines 113-114: every item of a list, without a ref
UpdateItems(items, j, row) ==
    IF j > Len(items) THEN [err |-> "", ls |-> items]
    ELSE LET r == update(items[j], row, None)
             done == [items EXCEPT ![j] = r.node]
         IN  IF r.err # "" THEN [err |-> r.err, ls |-> done]
             ELSE UpdateItems(done, j + 1, row)

\* a slip: the nested object's own ref is not passed on
UpdateNested_NoRef(value, row) == update(value, row, None)

\* lines 116-120: a nested MivotInstance
UpdateNested(value, row) ==
    LET r1 == IF ~HasAttr(value.f, kvalue)
              THEN update(value, row, None)
              ELSE [err |-> "", node |-> value]
    IN  IF r1.err # "" THEN r1
        ELSE IF HasAttr(r1.node.f, kvalue)
        THEN IF ~HasAttr(r1.node.f, kref)
             THEN [err |-> "AttributeError", node |-> r1.node]
             ELSE update(r1.node, row, RefOf(r1.node))
        ELSE r1

\* lines 111-124, from field i on
UpdateFrom(self, i, row, ref) ==
    IF i > Len(self.f) THEN [err |-> "", node |-> self]
    ELSE LET key == self.f[i][1]
             value == self.f[i][2]
             r == CASE value.t = "list" ->
                         LET l == UpdateItems(value.ls, 1, row)
                         IN  [err |-> l.err,
                              node |-> [self EXCEPT !.f[i] = <<key, List(l.ls)>>]]
                    [] value.t = "node" ->
                         LET n == UpdateNested(value.nd, row)
                         IN  [err |-> n.err,
                              node |-> [self EXCEPT !.f[i] = <<key, Node(n.node)>>]]
                    [] OTHER -> RefreshValue(self, key, row, ref)
         IN  IF r.err # "" THEN r ELSE UpdateFrom(r.node, i + 1, row, ref)

update(self, row, ref) == UpdateFrom(self, 1, row, ref)

----------------------------------------------------------------------------
(* MivotInstance._get_class_dict, hk_dict and dict *)

hk_parameters == <<kastropy_unit, kref>>

PDict(d) == [t |-> "dict", d |-> d]
PList(l) == [t |-> "list", ls |-> l]

HasKey(data, name) == \E i \in 1..Len(data) : data[i][1] = name
Item(data, name) == data[CHOOSE i \in 1..Len(data) : data[i][1] = name][2]

RECURSIVE Pop(_, _)
\* dict.pop(name, None)
Pop(data, name) ==
    IF data = <<>> THEN <<>>
    ELSE IF Head(data)[1] = name THEN Tail(data)
    ELSE <<Head(data)>> \o Pop(Tail(data), name)

\* `not v` for a projected value
Falsy(v) ==
    CASE v.t = "scalar" -> ~Truthy(v.sc)
      [] v.t = "dict" -> v.d = <<>>
      [] OTHER -> v.ls = <<>>

RECURSIVE PopAll(_, _)
PopAll(data, names) ==
    IF names = <<>> THEN data ELSE PopAll(Pop(data, Head(names)), Tail(names))

\* lines 205-213: the house keeping parameters removed from a slim dict
SlimElide(data) ==
    LET d1 == IF HasKey(data, kref) \/ HasKey(data, kvalue)
              THEN Pop(data, kdmtype) ELSE data
        d2 == IF HasKey(d1, kunit) /\ Falsy(Item(d1, kunit))
              THEN Pop(d1, kunit) ELSE d1
    IN  PopAll(d2, hk_parameters)

\* key.startswith('_')
StartsWithUnderscore(key) == key # <<>> /\ key[1] = "_"

RECURSIVE _get_class_dict(_, _)
RECURSIVE ClassItems(_, _, _)

\* lines 201-203: the (key, projection) pairs of the public fields
ClassItems(f, i, slim) ==
    IF i > Len(f) THEN <<>>
    ELSE IF StartsWithUnderscore(f[i][1]) THEN ClassItems(f, i + 1, slim)
    ELSE <<<<f[i][1], _get_class_dict(f[i][2], slim)>>>> \o ClassItems(f, i + 1, slim)

\* lines 191-219, on a field value
_get_class_dict(o, slim) ==
    CASE o.t = "list" ->
            PList([i \in 1..Len(o.ls) |-> _get_class_dict(Node(o.ls[i]), slim)])
      [] o.t = "node" ->
            LET data == ClassItems(o.nd.f, 1, slim)
            IN  PDict(IF slim THEN SlimElide(data) ELSE data)
      [] OTHER -> o

\* a slip: hk_dict asks for the slim dictionary
hk_dict_Slim(self) == _get_class_dict(Node(self), TRUE)

hk_dict(self) == _get_class_dict(Node(self), FALSE)
dict(self) == _get_class_dict(Node(self), TRUE)

----------------------------------------------------------------------------
(* The input dictionaries and rows the model draws from *)

dmFloat == Str(<<"ivoa", ":", "real">>)
dmString == Str(<<"string">>)
c1 == Str(<<"c1">>)
c2 == Str(<<"c2">>)

Attribute(dm, value, ref) ==
    << <<kdmtype, DScalar(dm)>>, <<kvalue, DScalar(value)>>, <<kref, DScalar(ref)>> >>

BoundLeaves == {Attribute(dmFloat, Str(<<"1.0">>), c1),
                Attribute(dmFloat, Str(<<"1.0">>), c2)}

RefLeaves ==
    BoundLeaves \cup
    {Attribute(dmFloat, Str(<<"1.0">>), None),
     Attribute(dmFloat, Str(<<"1.0">>), NullRef),
     Attribute(dmString, Str(<<"m", ":", "K", ".", "v">>), c1)}

Units == {Str(<<"mas/", "year">>), Str(<<"mas/", "yr">>), Str(<<"mjd">>),
          Str(<<"j", "year">>), Str(<<"furlong">>), Str(<<>>), None}

UnitLeaves ==
    {<< <<kdmtype, DScalar(dmFloat)>>, <<kvalue, DScalar(Str(<<"1.0">>))>>,
        <<kunit, DScalar(u)>>, <<kref, DScalar(None)>> >> : u \in Units}

\* leaves the constructor raises on
FailingLeaves ==
    {\* value ahead of dmtype
     << <<kvalue, DScalar(Str(<<"1.0">>))>>, <<kdmtype, DScalar(dmFloat)>> >>,
     \* a value that is no number
     << <<kdmtype, DScalar(dmFloat)>>, <<kvalue, DScalar(Str(<<"abc">>))>> >>}

OddLeaves ==
    {\* no ref
     << <<kdmtype, DScalar(dmFloat)>>, <<kvalue, DScalar(Str(<<"1.0">>))>> >>,
     \* a namespaced value key and a namespaced ref
     << <<kdmtype, DScalar(dmFloat)>>,
        <<<<"m", ":", "value">>, DScalar(Str(<<"m", ":", "A", ".", "b">>))>>,
        <<kref, DScalar(Str(<<"t", ":", "c1">>))>> >>,
     \* a namespaced value key and no dmtype
     << <<<<"m", ":", "value">>, DScalar(Str(<<"1.0">>))>>, <<kref, DScalar(c1)>> >>}

kx_A == <<"m", ":", "A", ".", "x">>
kx_B == <<"m", ":", "B", ".", "x">>
ky == <<"y">>
kitems == <<"m", ":", "C", ".", "items">>

Wrapped(leaf) == << <<ky, DDict(leaf)>> >>

\* what an entry of an INSTANCE holds
Subs ==
    {DDict(l) : l \in RefLeaves}
    \cup {DDict(l) : l \in OddLeaves}
    \cup {DDict(Wrapped(l)) : l \in BoundLeaves}
    \cup {DDict(<< <<kitems, DList(<<Attribute(dmFloat, Str(<<"1.0">>), c1)>>)>> >>),
          DScalar(Str(<<"m", ":", "K", ".", "v">>))}

KeyPairs == {<<kx_A, kx_B>>, <<ky, kx_A>>}

Instances ==
    {<< <<kp[1], a>>, <<kp[2], b>> >> : kp \in KeyPairs, a \in Subs, b \in Subs}

\* what a COLLECTION holds
Items == BoundLeaves \cup {Wrapped(l) : l \in BoundLeaves}

ItemLists == UNION {[1..n -> Items] : n \in 0..MaxItems}

Collections ==
    {<< <<kitems, DList(l)>> >> : l \in ItemLists}
    \cup {<< <<kitems, DList(l)>>,
             <<ky, DDict(Attribute(dmFloat, Str(<<"1.0">>), c1))>> >> : l \in ItemLists}

InstanceDicts ==
    RefLeaves \cup UnitLeaves \cup FailingLeaves \cup OddLeaves
    \cup Instances \cup Collections

\* rows: column reference -> raw cell
Rows ==
    {(<<"c1">> :> Str(a)) @@ (<<"c2">> :> Str(b)) :
        a \in {<<"3.5">>, <<"abc">>}, b \in {<<"7">>, <<"abc">>}}
    \cup {<<"c1">> :> Str(<<"3.50">>)}

\* the ref arguments a caller passes to update
RefArgs == {None, NullRef, c1}

----------------------------------------------------------------------------
(* The normalizer alone: every token up to MaxTokLen over the separators   *)
(* and two letters, with either role flag.                                 *)

TokAtoms == {":", ".", "a", "b"}

Tokens == UNION {[1..n -> TokAtoms] : n \in 0..MaxTokLen}

\* no object: the root of a tree has the identity <<>>
NoTree == [oid |-> <<0>>, f |-> <<>>]
NoRow == [c \in {} |-> None]
NoCall == [op |-> "none", row |-> NoRow, ref |-> None, err |-> ""]
NoProj == [done |-> FALSE, slim |-> FALSE, data |-> PDict(<<>>)]

InitNormalize ==
    /\ instance_dict = <<>>
    /\ obj = NoTree
    /\ built = NoTree
    /\ pre = NoTree
    /\ call = NoCall
    /\ proj = NoProj
    /\ defaults = TRUE
    /\ \E t \in Tokens, r \in BOOLEAN :
          norm = [token |-> t, role_instance |-> r, done |-> FALSE, result |-> <<>>]

Normalize ==
    /\ ~norm.done
    /\ norm' = [norm EXCEPT !.done = TRUE,
                            !.result = remove_model_name_str(norm.token,
                                                             norm.role_instance)]
    /\ UNCHANGED <<instance_dict, obj, built, pre, call, proj, defaults>>

NextNormalize == Normalize

SpecNormalize == InitNormalize /\ [][NextNormalize]_vars

\* The normalizer as section 4.3 of the specification words it.
ReferenceNormalize(t, role_instance) ==
    IF Find(t, ":") = 0 THEN t
    ELSE LET r == SliceFrom(t, Find(t, ":"))
         IN  IF role_instance
             THEN Replace(Replace(r, ":", "_"), ".", "_")
             ELSE IF RFind(r, ".") # 0 THEN SliceFrom(r, RFind(r, ".")) ELSE r

\* C3: for every token and role flag, the normalizer returns the reference
\* result: the token itself without a colon, else the text after the first
\* colon cut to its last dotted segment (role_instance false) or with its
\* separators turned into underscores (role_instance true).
C3_NormalizeIsReference ==
    norm.done => norm.result = ReferenceNormalize(norm.token, norm.role_instance)

----------------------------------------------------------------------------
(* The instance: construction, row updates and projections *)

NormIdle == [token |-> <<>>, role_instance |-> FALSE, done |-> TRUE, result |-> <<>>]

Init ==
    /\ instance_dict = <<>>
    /\ obj = NoTree
    /\ built = NoTree
    /\ pre = NoTree
    /\ call = NoCall
    /\ proj = NoProj
    /\ defaults = TRUE
    /\ norm = NormIdle

\* MivotInstance(**instance_dict): no object exists when the constructor raises
Construct(d) ==
    /\ call.op = "none"
    /\ LET r == MivotInstance(d, <<>>)
       IN  /\ instance_dict' = d
           /\ obj' = IF r.err = "" THEN r.node ELSE NoTree
           /\ built' = IF r.err = "" THEN r.node ELSE NoTree
           /\ call' = [op |-> "init", row |-> NoRow, ref |-> None, err |-> r.err]
    /\ UNCHANGED <<pre, proj, defaults, norm>>

\* obj.update(row, ref)
Update(row, ref) ==
    /\ obj # NoTree
    /\ LET r == update(obj, row, ref)
       IN  /\ obj' = r.node
           /\ call' = [op |-> "update", row |-> row, ref |-> ref, err |-> r.err]
    /\ pre' = obj
    /\ defaults' = (defaults /\ ref = None)
    /\ proj' = NoProj
    /\ UNCHANGED <<instance_dict, built, norm>>

\* obj.hk_dict
HkDict ==
    /\ obj # NoTree
    /\ proj' = [done |-> TRUE, slim |-> FALSE, data |-> hk_dict(obj)]
    /\ UNCHANGED <<instance_dict, obj, built, pre, call, defaults, norm>>

\* obj.dict
Dict ==
    /\ obj # NoTree
    /\ proj' = [done |-> TRUE, slim |-> TRUE, data |-> dict(obj)]
    /\ UNCHANGED <<instance_dict, obj, built, pre, call, defaults, norm>>

Next ==
    \/ \E d \in InstanceDicts : Construct(d)
    \/ \E row \in Rows, ref \in RefArgs : Update(row, ref)
    \/ HkDict
    \/ Dict

Spec == Init /\ [][Next]_vars

----------------------------------------------------------------------------
(* Vocabulary of the properties *)

RECURSIVE AllNodes(_)
\* every object of a tree, the root included
AllNodes(n) ==
    {n} \cup UNION {IF n.f[i][2].t = "node" THEN AllNodes(n.f[i][2].nd)
                    ELSE IF n.f[i][2].t = "list"
                    THEN UNION {AllNodes(n.f[i][2].ls[j]) : j \in 1..Len(n.f[i][2].ls)}
                    ELSE {} : i \in 1..Len(n.f)}

\* the objects held in a nested-node field of some object of the tree
NestedNodes(n) ==
    UNION {{m.f[i][2].nd : i \in {j \in 1..Len(m.f) : m.f[j][2].t = "node"}} :
            m \in AllNodes(n)}

\* the objects that are elements of some list field of the tree
ListItems(n) ==
    UNION {UNION {{m.f[i][2].ls[j] : j \in 1..Len(m.f[i][2].ls)} :
                    i \in {j \in 1..Len(m.f) : m.f[j][2].t = "list"}} :
            m \in AllNodes(n)}

NodeAt(tree, oid) == CHOOSE n \in AllNodes(tree) : n.oid = oid

\* an ATTRIBUTE leaf: no nested object, and a scalar value field
IsAttribute(n) ==
    /\ \A i \in 1..Len(n.f) : n.f[i][2].t # "node"
    /\ HasAttr(n.f, kvalue)
    /\ GetAttr(n.f, kvalue).t = "scalar"

\* bound to a column: its own ref is a string other than the sentinel
IsBound(n) ==
    /\ HasAttr(n.f, kref)
    /\ GetAttr(n.f, kref).t = "scalar"
    /\ IsStr(GetAttr(n.f, kref).sc)
    /\ GetAttr(n.f, kref).sc # NullRef

\* the value of leaf n is the cast of the row's cell for the leaf's own ref
\* and dmtype
Refreshed(n, row) ==
    /\ GetAttr(n.f, kref).sc.s \in DOMAIN row
    /\ HasAttr(n.f, kdmtype)
    /\ LET c == CastWith(row[GetAttr(n.f, kref).sc.s], GetAttr(n.f, kdmtype))
       IN  c.err = "" /\ GetAttr(n.f, kvalue) = Scalar(c.v)

Returned == call.op = "update" /\ call.err = ""

----------------------------------------------------------------------------
(* Row binder: properties *)

\* C1: after update(root, row) returns normally, every ATTRIBUTE leaf held in
\* a nested-node field whose own ref is neither None nor 'null' has
\* value = cast(row[ref], dmtype), with its own ref and dmtype.
C1_NestedLeafRefreshed ==
    Returned =>
        \A n \in NestedNodes(obj) :
            IsAttribute(n) /\ IsBound(n) => Refreshed(n, call.row)

\* a returned update whose row cell '3.50' became the float 3.5 in a nested
\* leaf that held 1.0
C1_Witness ==
    /\ Returned
    /\ \E n \in NestedNodes(obj) :
          /\ IsAttribute(n) /\ IsBound(n)
          /\ GetAttr(n.f, kvalue) = Scalar(Float(<<"3.5">>))
          /\ GetAttr(NodeAt(pre, n.oid).f, kvalue) = Scalar(Float(<<"1.0">>))
          /\ call.row[GetAttr(n.f, kref).sc.s] = Str(<<"3.50">>)

\* C2: after update(root, row) returns normally, every column-bound
\* ATTRIBUTE leaf belonging to an element of a collection has
\* value = cast(row[ref], dmtype), an element that is itself such a leaf
\* included.
C2_CollectionRefreshed ==
    Returned =>
        \A e \in ListItems(obj) :
            \A n \in {e} \cup NestedNodes(e) :
                IsAttribute(n) /\ IsBound(n) => Refreshed(n, call.row)

----------------------------------------------------------------------------
(* Builder and projection: properties *)

HasEntry(d, key) == \E i \in 1..Len(d) : d[i][1] = key
Entry(d, key) == d[CHOOSE i \in 1..Len(d) : d[i][1] = key][2]

\* the structural leaf test of the data model: no mapping among the
\* immediate values
IsLeafDict(d) == \A i \in 1..Len(d) : d[i][2].t # "dict"

Constructed == call.op # "none" /\ built # NoTree

\* the constructor has built a leaf from a dictionary with a scalar unit
BuiltLeafWithUnit ==
    /\ Constructed
    /\ IsLeafDict(instance_dict)
    /\ HasEntry(instance_dict, kunit)
    /\ Entry(instance_dict, kunit).t = "scalar"

MasYear == <<"mas/", "year">>
MasYr == <<"mas/", "yr">>
YearToYr(s) == Replace(s, "year", "yr")
NoDerivedField(f) == ~HasAttr(f, kastropy_unit) /\ ~HasAttr(f, kastropy_unit_time)

\* C4 as claimed: a leaf built with unit 'mas/year' stores the rewritten
\* unit 'mas/yr' and, when 'mas/yr' is in the unit table, a derived
\* astropy-unit field; a unit string in neither table gives no derived field.
C4_StoredUnitRewritten ==
    BuiltLeafWithUnit =>
        LET u == Entry(instance_dict, kunit).sc
        IN  /\ u = Str(MasYear) =>
                 /\ GetAttr(built.f, kunit) = Scalar(Str(MasYr))
                 /\ MasYr \in DOMAIN unit_mapping => HasAttr(built.f, kastropy_unit)
            /\ (IsStr(u) /\ u.s \notin DOMAIN unit_mapping /\ u.s \notin TIME_FORMATS)
                 => NoDerivedField(built.f)

\* C4 amended: the stored unit field is the unit string as given (the
\* 'year' -> 'yr' rewrite serves the table lookup alone); unit 'mas/year'
\* also gives the astropy unit of 'mas/yr' when the table holds it; a unit
\* whose rewritten string is in neither table gives no derived field.
C4_StoredUnitAsGiven ==
    BuiltLeafWithUnit =>
        LET u == Entry(instance_dict, kunit).sc
        IN  /\ (IsStr(u) /\ Find(u.s, ":") = 0) => GetAttr(built.f, kunit) = Scalar(u)
            /\ u = Str(MasYear) =>
                 (MasYr \in DOMAIN unit_mapping =>
                    /\ HasAttr(built.f, kastropy_unit)
                    /\ GetAttr(built.f, kastropy_unit) = Scalar(unit_mapping[MasYr]))
            /\ (IsStr(u) /\ YearToYr(u.s) \notin DOMAIN unit_mapping
                         /\ YearToYr(u.s) \notin TIME_FORMATS)
                 => NoDerivedField(built.f)

\* a leaf built from unit 'mas/year', holding the derived astropy unit
C4_Witness ==
    /\ BuiltLeafWithUnit
    /\ Entry(instance_dict, kunit).sc = Str(MasYear)
    /\ HasAttr(built.f, kastropy_unit)

RECURSIVE SlimOf(_, _)
\* slim is full without the housekeeping fields, as C5 words it
SlimOf(full, slim) ==
    CASE full.t = "dict" ->
            /\ slim.t = "dict"
            /\ \A k \in {kref, kastropy_unit, kastropy_unit_time} : ~HasKey(slim.d, k)
            /\ (HasKey(full.d, kref) \/ HasKey(full.d, kvalue)) => ~HasKey(slim.d, kdmtype)
            /\ HasKey(slim.d, kunit) => ~Falsy(Item(slim.d, kunit))
            /\ \A i \in 1..Len(full.d) :
                  LET k == full.d[i][1]
                      hidden ==
                          \/ k \in {kref, kastropy_unit, kastropy_unit_time}
                          \/ k = kdmtype /\ (HasKey(full.d, kref) \/ HasKey(full.d, kvalue))
                          \/ k = kunit /\ Falsy(full.d[i][2])
                  IN  ~hidden => /\ HasKey(slim.d, k)
                                 /\ SlimOf(full.d[i][2], Item(slim.d, k))
      [] full.t = "list" ->
            /\ slim.t = "list"
            /\ Len(slim.ls) = Len(full.ls)
            /\ \A j \in 1..Len(full.ls) : SlimOf(full.ls[j], slim.ls[j])
      [] OTHER -> slim = full

\* C5: the slim projection holds, at every node, no ref, no derived
\* astropy-unit field, no derived time-format tag, no dmtype beside a ref or
\* a value and no empty unit; every other field of the full projection is
\* there with the same value.
C5_SlimHidesHousekeeping ==
    (proj.done /\ proj.slim) => SlimOf(hk_dict(obj), proj.data)

\* the name an entry is stored under: the role name for a mapping that is
\* not a leaf, the simple name otherwise
PlaceKey(key, v) ==
    IF v.t = "dict" /\ ~IsLeafDict(v.d)
    THEN remove_model_name_str(key, TRUE)
    ELSE remove_model_name_str(key, FALSE)

Housekeeping == {kref, kastropy_unit, kastropy_unit_time}

RECURSIVE NoCollections(_)
NoCollections(d) ==
    \A i \in 1..Len(d) :
        /\ d[i][2].t # "list"
        /\ d[i][2].t = "dict" => NoCollections(d[i][2].d)

RECURSIVE DistinctNames(_)
\* at every level the entries are stored under pairwise distinct names,
\* none of them private
DistinctNames(d) ==
    /\ \A i, j \in 1..Len(d) :
          i # j => PlaceKey(d[i][1], d[i][2]) # PlaceKey(d[j][1], d[j][2])
    /\ \A i \in 1..Len(d) :
          /\ ~StartsWithUnderscore(PlaceKey(d[i][1], d[i][2]))
          /\ d[i][2].t = "dict" => DistinctNames(d[i][2].d)

\* the projected value of a scalar entry: the cast for the value entry, the
\* normalized scalar otherwise
ProjectedScalar(d, i) ==
    IF d[i][1] = kvalue /\ HasEntry(d, kdmtype)
    THEN Scalar(CastWith(d[i][2].sc,
                         Scalar(_remove_model_name(Entry(d, kdmtype).sc, FALSE))).v)
    ELSE Scalar(_remove_model_name(d[i][2].sc, FALSE))

RECURSIVE RoundTrip(_, _)
\* p holds every non-housekeeping pair of d, at the corresponding position
RoundTrip(d, p) ==
    /\ p.t = "dict"
    /\ \A i \in 1..Len(d) :
          LET nk == PlaceKey(d[i][1], d[i][2])
          IN  nk \notin Housekeeping =>
                /\ HasKey(p.d, nk)
                /\ CASE d[i][2].t = "scalar" -> Item(p.d, nk) = ProjectedScalar(d, i)
                     [] d[i][2].t = "dict" -> RoundTrip(d[i][2].d, Item(p.d, nk))
                     [] OTHER -> TRUE

\* the full projection of a freshly built tree of a dictionary without
\* collections has been taken
FullOfBuilt ==
    /\ Constructed
    /\ call.op = "init"
    /\ NoCollections(instance_dict)
    /\ proj.done /\ ~proj.slim

\* C6 as claimed: the full projection of build(D) holds every
\* non-housekeeping pair of D, also when two keys of a mapping normalize to
\* the same name.
C6_RoundTripAlways == FullOfBuilt => RoundTrip(instance_dict, proj.data)

\* C6 amended: it does when, in every mapping of D, the entries normalize
\* to pairwise distinct, public names.
C6_RoundTripDistinct ==
    (FullOfBuilt /\ DistinctNames(instance_dict)) => RoundTrip(instance_dict, proj.data)

\* the full projection of a tree with a nested INSTANCE of INSTANCEs
C6_Witness ==
    /\ FullOfBuilt
    /\ DistinctNames(instance_dict)
    /\ \E i \in 1..Len(instance_dict) :
          /\ instance_dict[i][2].t = "dict"
          /\ ~IsLeafDict(instance_dict[i][2].d)

RECURSIVE Dedup(_, _)
\* the names of a sequence in the order they first occur
Dedup(names, seen) ==
    IF names = <<>> THEN <<>>
    ELSE IF Head(names) \in seen THEN Dedup(Tail(names), seen)
    ELSE <<Head(names)>> \o Dedup(Tail(names), seen \cup {Head(names)})

RECURSIVE Mirrors(_, _)
\* object n has the shape of dictionary d: one field per entry, in the
\* order of the entries, each under its place key, a later entry replacing
\* an earlier one of the same name
Mirrors(d, n) ==
    LET pk == [i \in 1..Len(d) |-> PlaceKey(d[i][1], d[i][2])]
        placed == {pk[i] : i \in 1..Len(d)}
        names == [i \in 1..Len(n.f) |-> n.f[i][1]]
        IsEntryName(k) == k \in placed \/ k \notin {kastropy_unit, kastropy_unit_time}
    IN  /\ SelectSeq(names, IsEntryName) = Dedup(pk, {})
        /\ \A i \in 1..Len(d) :
              (\A j \in (i + 1)..Len(d) : pk[j] # pk[i]) =>
                 LET fld == GetAttr(n.f, pk[i])
                 IN  CASE d[i][2].t = "list" ->
                            /\ fld.t = "list"
                            /\ Len(fld.ls) = Len(d[i][2].ls)
                            /\ \A j \in 1..Len(fld.ls) : Mirrors(d[i][2].ls[j], fld.ls[j])
                       [] d[i][2].t = "dict" ->
                            /\ fld.t = "node"
                            /\ Mirrors(d[i][2].d, fld.nd)
                       [] OTHER -> fld.t = "scalar"

----------------------------------------------------------------------------
(* Row binder: frame, failure and history *)

Unbound(ref) == ref = None \/ ref = NullRef

\* the ref a nested object is updated with: its own ref when it holds a
\* value, none otherwise
NestedRef(c) ==
    IF HasAttr(c.f, kvalue) /\ HasAttr(c.f, kref) THEN RefOf(c) ELSE None

RECURSIVE Frame(_, _, _)
\* new is old but for the scalar value fields of the objects updated with a
\* bound ref: same objects, same field names in the same order, same
\* lists, every other scalar field equal
Frame(old, new, ref) ==
    /\ new.oid = old.oid
    /\ Len(new.f) = Len(old.f)
    /\ \A i \in 1..Len(old.f) :
          /\ new.f[i][1] = old.f[i][1]
          /\ new.f[i][2].t = old.f[i][2].t
          /\ CASE old.f[i][2].t = "scalar" ->
                    \/ new.f[i][2] = old.f[i][2]
                    \/ old.f[i][1] = kvalue /\ ~Unbound(ref)
               [] old.f[i][2].t = "node" ->
                    Frame(old.f[i][2].nd, new.f[i][2].nd, NestedRef(old.f[i][2].nd))
               [] OTHER ->
                    /\ Len(new.f[i][2].ls) = Len(old.f[i][2].ls)
                    /\ \A j \in 1..Len(old.f[i][2].ls) :
                          Frame(old.f[i][2].ls[j], new.f[i][2].ls[j], None)

\* C7: after any sequence of update calls, returned or raised, the tree has
\* the shape build gave it; only value fields of objects updated with a ref
\* that is neither None nor 'null' may differ, every other scalar field is
\* unchanged, and an update with ref None or 'null' leaves the object's own
\* value unchanged.
C7_UpdateKeepsShape ==
    obj # NoTree =>
        /\ Frame(built, obj, IF defaults THEN None ELSE c1)
        /\ call.op = "update" => Frame(pre, obj, call.ref)

\* an update that raised after it had refreshed a value
C7_Witness ==
    /\ call.op = "update"
    /\ call.err # ""
    /\ obj # pre

RECURSIVE Visits(_, _)
RECURSIVE VisitsFrom(_, _, _)
RECURSIVE VisitsItems(_, _)

\* the refreshes of a walk in the order update comes to them: the object,
\* the ref it is updated with; stop marks a nested object holding a value
\* and no ref
VisitsItems(items, j) ==
    IF j > Len(items) THEN <<>>
    ELSE Visits(items[j], None) \o VisitsItems(items, j + 1)

VisitsFrom(n, i, ref) ==
    IF i > Len(n.f) THEN <<>>
    ELSE LET fld == n.f[i][2]
             here ==
                 CASE fld.t = "list" -> VisitsItems(fld.ls, 1)
                   [] fld.t = "node" ->
                        IF HasAttr(fld.nd.f, kvalue) /\ ~HasAttr(fld.nd.f, kref)
                        THEN <<[oid |-> fld.nd.oid, ref |-> None, stop |-> TRUE]>>
                        ELSE Visits(fld.nd, NestedRef(fld.nd))
                   [] OTHER ->
                        IF n.f[i][1] = kvalue /\ ~Unbound(ref)
                        THEN <<[oid |-> n.oid, ref |-> ref, stop |-> FALSE]>>
                        ELSE <<>>
         IN  here \o VisitsFrom(n, i + 1, ref)

Visits(n, ref) == VisitsFrom(n, 1, ref)

\* what the refresh v does on tree t with the row
Outcome(t, v, row) ==
    IF v.stop THEN "AttributeError"
    ELSE IF ~(IsStr(v.ref) /\ v.ref.s \in DOMAIN row) THEN "KeyError"
    ELSE IF ~HasAttr(NodeAt(t, v.oid).f, kdmtype) THEN "AttributeError"
    ELSE CastWith(row[v.ref.s], GetAttr(NodeAt(t, v.oid).f, kdmtype)).err

OwnScalars(n) ==
    [i \in 1..Len(n.f) |-> IF n.f[i][2].t = "scalar" THEN n.f[i][2] ELSE Scalar(None)]

\* C9: when the cast fails for a bound leaf during update(root, row), the
\* casting error reaches the caller and the walk stops there: the leaves
\* refreshed earlier hold the value of this row, the failing leaf and every
\* leaf not yet visited hold the value they had before the call.
C9_CastErrorStopsWalk ==
    call.op = "update" =>
        LET V == Visits(pre, call.ref)
        IN  \A k \in 1..Len(V) :
               (/\ Outcome(pre, V[k], call.row) = "CastError"
                /\ \A i \in 1..(k - 1) : Outcome(pre, V[i], call.row) = "")
               => /\ call.err = "CastError"
                  /\ \A i \in 1..(k - 1) :
                        GetAttr(NodeAt(obj, V[i].oid).f, kvalue) =
                            Scalar(CastWith(call.row[V[i].ref.s],
                                            GetAttr(NodeAt(pre, V[i].oid).f, kdmtype)).v)
                  /\ \A n \in AllNodes(pre) :
                        n.oid \notin {V[i].oid : i \in 1..(k - 1)}
                            => OwnScalars(NodeAt(obj, n.oid)) = OwnScalars(n)

\* a casting error on the second of two bound leaves: the first holds the
\* new value
C9_Witness ==
    /\ call.op = "update"
    /\ call.err = "CastError"
    /\ obj # pre
    /\ Len(Visits(pre, call.ref)) >= 2

\* C10: the tree after update(root, r2) that follows any earlier updates is
\* the tree update(root, r2) gives on the freshly built tree.
C10_HistoryIndependent ==
    (Returned /\ defaults) => obj = update(built, call.row, None).node

\* a returned update with a row that changed a tree already changed by an
\* earlier row
C10_Witness ==
    /\ Returned
    /\ defaults
    /\ pre # built
    /\ obj # pre

====
